---- MODULE Spec2Model ----
(***************************************************************************)
(* A model of queue.c: a queue of strings kept as an intrusive circular    *)
(* doubly-linked list around a sentinel, with the link-level algorithms    *)
(* (delete middle, delete duplicates, pairwise swap, reverse, merge sort). *)
(*                                                                         *)
(* Memory is a record  mem = [next, prev, value, alloc, fault]: the first   *)
(* four are functions over addresses, fault is the set of memory errors    *)
(* the program has committed (freeing a block twice, releasing an element  *)
(* that is still linked, reading freed memory).  Address 0 is NULL, HEAD   *)
(* is the queue's sentinel, TRASH the scratch sentinel of q_delete_dup,    *)
(* the others are element_t nodes.                                         *)
(* Every C function is an operator from memory to memory, its loops are    *)
(* RECURSIVE operators; every action of the state machine is one call of   *)
(* a public function by the caller.                                        *)
(***************************************************************************)
EXTENDS Integers, Sequences, FiniteSets, TLC

\* ------------------------------------------------------------------ bounds
\* Number of element_t nodes the allocator can hand out under Spec.
MaxNodes == 3
\* Longest queue SpecAlg starts from.
MaxLen == 5
\* Width of size_t in the model (the program's is 64); sizes wrap at 2^SizeBits.
SizeBits == 2

\* --------------------------------------------------------------- addresses
NULL == 0
HEAD == 1
TRASH == 2
Pool == IF MaxLen > MaxNodes THEN MaxLen ELSE MaxNodes
Elems == 3..(MaxNodes + 2)
Addr == 0..(Pool + 2)
SizeMod == 2 ^ SizeBits

\* The strings the caller inserts: byte sequences without the terminator.
Strings == { <<1>>, <<1, 2>>, <<2>> }
NoStr == <<>>

VARIABLES
    mem,      \* the heap: [next, prev, value, alloc, fault]
    q,        \* the caller's queue handle: NULL or HEAD
    rm,       \* the element a remove handed to the caller and not yet released
    sp,       \* the bytes the last remove wrote to the caller's buffer, from position 0
    bufsize,  \* the capacity the caller passed to the last remove
    op,       \* the last public operation called
    ret,      \* its return value (false = 0, true = 1, a pointer, or 0 for void)
    count,    \* elements inserted minus elements removed or deleted
    snap,     \* the heap before the last operation
    abs       \* the queue as a double-ended sequence of strings

vars == <<mem, q, rm, sp, bufsize, op, ret, count, snap, abs>>

\* ------------------------------------------------------------ memory cells
SetNext(h, n, v) == [h EXCEPT !.next[n] = v]
SetPrev(h, n, v) == [h EXCEPT !.prev[n] = v]

\* malloc(sizeof(struct list_head)) / malloc(sizeof(element_t)): the block
\* becomes live, its content is not yet written.
Malloc(h, n) == [h EXCEPT !.alloc[n] = TRUE]
\* The program commits the memory error f.
Fault(h, f) == [h EXCEPT !.fault = @ \cup {f}]

\* free(): the block is gone; its content is never read again.  Freeing a
\* block that is not allocated is an error.
Free(h, n) ==
    LET h1 == IF h.alloc[n] THEN h ELSE Fault(h, "double free")
    IN  [h1 EXCEPT !.alloc[n] = FALSE, !.next[n] = NULL, !.prev[n] = NULL,
                   !.value[n] = NoStr]

\* Reading the value of element n: an error when n has been freed.
ReadValue(h, n) == IF h.alloc[n] THEN h ELSE Fault(h, "read of freed memory")

\* The allocator hands out the lowest free element block, NULL when none is left.
FreeElems(h) == { e \in Elems : ~h.alloc[e] }
NewElem(h) ==
    IF FreeElems(h) = {} THEN NULL
    ELSE CHOOSE e \in FreeElems(h) : \A f \in FreeElems(h) : e <= f

EmptyMem ==
    [next  |-> [a \in Addr |-> NULL],
     prev  |-> [a \in Addr |-> NULL],
     value |-> [a \in Addr |-> NoStr],
     alloc |-> [a \in Addr |-> FALSE],
     fault |-> {}]

\* The blocks that can be reached from the blocks of S through next and prev.
RECURSIVE Reach(_, _)
Reach(h, S) ==
    LET T == (S \cup { h.next[x] : x \in S } \cup { h.prev[x] : x \in S }) \ {NULL}
    IN  IF T = S THEN S ELSE Reach(h, T)

\* e is linked: some sentinel reaches it through next or prev links.
Linked(h, e) == e \in Reach(h, { s \in {HEAD, TRASH} : h.alloc[s] })

\* ------------------------------------------------------ list.h primitives
INIT_LIST_HEAD(h, head) == SetPrev(SetNext(h, head, head), head, head)

list_empty(h, head) == h.next[head] = head

list_is_singular(h, head) ==
    ~list_empty(h, head) /\ h.prev[head] = h.next[head]

list_add(h, node, head) ==
    LET nx == h.next[head]
        h1 == SetPrev(h, nx, node)
        h2 == SetNext(h1, node, nx)
        h3 == SetPrev(h2, node, head)
    IN  SetNext(h3, head, node)

list_add_tail(h, node, head) ==
    LET pv == h.prev[head]
        h1 == SetNext(h, pv, node)
        h2 == SetNext(h1, node, head)
        h3 == SetPrev(h2, node, pv)
    IN  SetPrev(h3, head, node)

\* The node's own links are left as they were.
list_del(h, node) ==
    LET nx == h.next[node]
        pv == h.prev[node]
    IN  SetNext(SetPrev(h, nx, pv), pv, nx)

list_del_init(h, node) == INIT_LIST_HEAD(list_del(h, node), node)

list_move(h, node, head) == list_add(list_del(h, node), node, head)

\* ---------------------------------------------------------- libc strings
Min(a, b) == IF a <= b THEN a ELSE b

\* strcmp on byte sequences: negative, zero or positive.
RECURSIVE strcmp(_, _)
strcmp(a, b) ==
    IF a = <<>> /\ b = <<>> THEN 0
    ELSE IF a = <<>> THEN -1
    ELSE IF b = <<>> THEN 1
    ELSE IF Head(a) # Head(b) THEN Head(a) - Head(b)
    ELSE strcmp(Tail(a), Tail(b))

strlen(s) == Len(s)
strnlen(s, n) == Min(Len(s), n)

\* strncpy(dst, src, n) followed by dst[n] = '\0': the bytes written to
\* positions 0..n of dst (0 is the terminator and the padding).
strncpy(src, n) == [i \in 1..n |-> IF i <= Len(src) THEN src[i] ELSE 0]

\* The C string held by a buffer: the bytes before the first terminator.
RECURSIVE CStr(_)
CStr(b) ==
    IF b = <<>> \/ Head(b) = 0 THEN <<>> ELSE <<Head(b)>> \o CStr(Tail(b))

\* ------------------------------------------------------------ queue.c
\* Each function returns the memory after the call and, where it has one,
\* the return value: [h |-> memory, ret |-> value].

\* blk: the block malloc hands out when it succeeds (ok).
q_new(h, blk, ok) ==
    IF ~ok THEN [h |-> h, ret |-> NULL]
    ELSE [h |-> INIT_LIST_HEAD(Malloc(h, blk), blk), ret |-> blk]

\* free(e->value); free(e);  Releasing an element that is still linked
\* into a ring is an error.
q_release_element(h, e) ==
    Free(IF Linked(h, e) THEN Fault(h, "release of a linked element") ELSE h, e)

RECURSIVE q_free_loop(_, _)
q_free_loop(h, l) ==
    IF list_empty(h, l) THEN h
    ELSE LET todel == h.next[l]
         IN  q_free_loop(q_release_element(list_del(h, todel), todel), l)

\* q_free that frees the sentinel and forgets the elements.
q_free_shallow(h, l) ==
    IF l = NULL THEN h ELSE Free(h, l)

q_free(h, l) ==
    IF l = NULL THEN h ELSE Free(q_free_loop(h, l), l)

\* okNode, okValue: whether the two malloc calls succeed.
\* q_insert_head without the test for a NULL queue.
q_insert_head_nocheck(h, head, s, okNode, okValue) ==
    LET newele == IF okNode THEN NewElem(h) ELSE NULL
    IN  IF newele = NULL THEN [h |-> h, ret |-> 0]
        ELSE LET h1 == INIT_LIST_HEAD(Malloc(h, newele), newele)
                 size == strlen(s)
             IN  IF ~okValue THEN [h |-> Free(h1, newele), ret |-> 0]
                 ELSE LET h2 == [h1 EXCEPT !.value[newele] =
                                        CStr(strncpy(s, size + 1))]
                      IN  [h |-> list_add(h2, newele, head), ret |-> 1]

\* q_insert_head that returns without free(newele) when the value buffer
\* cannot be allocated.
q_insert_head_leak(h, head, s, okNode, okValue) ==
    IF head = NULL THEN [h |-> h, ret |-> 0]
    ELSE LET newele == IF okNode THEN NewElem(h) ELSE NULL
         IN  IF newele = NULL THEN [h |-> h, ret |-> 0]
             ELSE LET h1 == INIT_LIST_HEAD(Malloc(h, newele), newele)
                      size == strlen(s)
                  IN  IF ~okValue THEN [h |-> h1, ret |-> 0]
                      ELSE LET h2 == [h1 EXCEPT !.value[newele] =
                                             CStr(strncpy(s, size + 1))]
                           IN  [h |-> list_add(h2, newele, head), ret |-> 1]

q_insert_head(h, head, s, okNode, okValue) ==
    IF head = NULL THEN [h |-> h, ret |-> 0]
    ELSE LET newele == IF okNode THEN NewElem(h) ELSE NULL
         IN  IF newele = NULL THEN [h |-> h, ret |-> 0]
             ELSE LET h1 == INIT_LIST_HEAD(Malloc(h, newele), newele)
                      size == strlen(s)
                  IN  IF ~okValue THEN [h |-> Free(h1, newele), ret |-> 0]
                      ELSE LET h2 == [h1 EXCEPT !.value[newele] =
                                             CStr(strncpy(s, size + 1))]
                           IN  [h |-> list_add(h2, newele, head), ret |-> 1]

q_insert_tail(h, head, s, okNode, okValue) ==
    IF head = NULL THEN [h |-> h, ret |-> 0]
    ELSE LET newele == IF okNode THEN NewElem(h) ELSE NULL
         IN  IF newele = NULL THEN [h |-> h, ret |-> 0]
             ELSE LET h1 == INIT_LIST_HEAD(Malloc(h, newele), newele)
                      size == strlen(s)
                  IN  IF ~okValue THEN [h |-> Free(h1, newele), ret |-> 0]
                      ELSE LET h2 == [h1 EXCEPT !.value[newele] =
                                             CStr(strncpy(s, size + 1))]
                           IN  [h |-> list_add_tail(h2, newele, head), ret |-> 1]

\* CopyOut that bounds the copy by bufsize instead of bufsize - 1.
CopyOut_full(val, bufsz) ==
    LET len == strnlen(val, bufsz % SizeMod)
    IN  strncpy(val, len) \o <<0>>

\* The bytes a remove writes to sp, from position 0 on: len bytes of the
\* value, then the terminator at position len.  bufsize - 1 is a size_t.
CopyOut(val, bufsz) ==
    LET len == strnlen(val, (bufsz - 1) % SizeMod)
    IN  strncpy(val, len) \o <<0>>

\* spGiven: whether the caller passed a buffer.  out is what was written.
q_remove_head(h, head, spGiven, bufsz) ==
    IF head = NULL \/ list_empty(h, head) THEN [h |-> h, ret |-> NULL, out |-> <<>>]
    ELSE LET rmv == h.next[head]
         IN  [h   |-> list_del_init(h, rmv),
              ret |-> rmv,
              out |-> IF spGiven THEN CopyOut(h.value[rmv], bufsz) ELSE <<>>]

\* q_remove_tail taking the element after the sentinel.
q_remove_tail_head(h, head, spGiven, bufsz) ==
    IF head = NULL \/ list_empty(h, head) THEN [h |-> h, ret |-> NULL, out |-> <<>>]
    ELSE LET rmv == h.next[head]
         IN  [h   |-> list_del_init(h, rmv),
              ret |-> rmv,
              out |-> IF spGiven THEN CopyOut(h.value[rmv], bufsz) ELSE <<>>]

q_remove_tail(h, head, spGiven, bufsz) ==
    IF head = NULL \/ list_empty(h, head) THEN [h |-> h, ret |-> NULL, out |-> <<>>]
    ELSE LET rmv == h.prev[head]
         IN  [h   |-> list_del_init(h, rmv),
              ret |-> rmv,
              out |-> IF spGiven THEN CopyOut(h.value[rmv], bufsz) ELSE <<>>]

\* list_for_each (it, head) size++
RECURSIVE q_size_loop(_, _, _, _)
q_size_loop(h, head, it, size) ==
    IF it = head THEN size ELSE q_size_loop(h, head, h.next[it], size + 1)

q_size(h, head) ==
    IF head = NULL \/ list_empty(h, head) THEN 0
    ELSE q_size_loop(h, head, h.next[head], 0)

\* mid_loop that tests for the meeting before it advances forwd.
RECURSIVE mid_loop_early(_, _, _)
mid_loop_early(h, forwd, backwd) ==
    IF forwd = backwd THEN forwd
    ELSE IF h.next[forwd] = backwd THEN forwd
    ELSE mid_loop_early(h, h.next[forwd], h.prev[backwd])

\* while (forwd != backwd) { forwd = forwd->next; if (forwd == backwd) break;
\*                           backwd = backwd->prev; }
RECURSIVE mid_loop(_, _, _)
mid_loop(h, forwd, backwd) ==
    IF forwd = backwd THEN forwd
    ELSE LET f1 == h.next[forwd]
         IN  IF f1 = backwd THEN f1 ELSE mid_loop(h, f1, h.prev[backwd])

\* q_delete_mid that releases the middle element without list_del.
q_delete_mid_nounlink(h, head) ==
    IF head = NULL \/ list_empty(h, head) THEN [h |-> h, ret |-> 0]
    ELSE LET todel == mid_loop(h, h.next[head], h.prev[head])
         IN  [h |-> q_release_element(h, todel), ret |-> 1]

q_delete_mid(h, head) ==
    IF head = NULL \/ list_empty(h, head) THEN [h |-> h, ret |-> 0]
    ELSE LET todel == mid_loop(h, h.next[head], h.prev[head])
         IN  [h |-> q_release_element(list_del(h, todel), todel), ret |-> 1]

\* dup_run that releases each element of the run at once instead of moving
\* it to the scratch ring.
RECURSIVE dup_run_release(_, _, _, _, _)
dup_run_release(h, head, trashcan, it, curr) ==
    LET e  == h.next[it]
        h1 == q_release_element(list_del(h, e), e)
        h2 == IF h1.next[it] # head
              THEN ReadValue(ReadValue(h1, curr), h1.next[it])
              ELSE h1
    IN  IF h1.next[it] # head /\ strcmp(h1.value[curr], h1.value[h1.next[it]]) = 0
        THEN dup_run_release(h2, head, trashcan, it, curr)
        ELSE h2

\* do { list_move(it->next, trashcan); } while (it->next != head && !strcmp(...))
\* curr is a char pointer into the element it was taken from; strcmp reads
\* through it and through it->next.
RECURSIVE dup_run(_, _, _, _, _)
dup_run(h, head, trashcan, it, curr) ==
    LET h1 == list_move(h, h.next[it], trashcan)
        h2 == IF h1.next[it] # head
              THEN ReadValue(ReadValue(h1, curr), h1.next[it])
              ELSE h1
    IN  IF h1.next[it] # head /\ strcmp(h1.value[curr], h1.value[h1.next[it]]) = 0
        THEN dup_run(h2, head, trashcan, it, curr)
        ELSE h2

\* dup_scan that starts the run after the current element and so keeps one
\* representative of every repeated value.
RECURSIVE dup_scan_keepone(_, _, _, _)
dup_scan_keepone(h, head, trashcan, it) ==
    IF it = head THEN h
    ELSE LET curr == it
         IN  IF h.next[it] = head \/ strcmp(h.value[curr], h.value[h.next[it]]) # 0
             THEN dup_scan_keepone(h, head, trashcan, h.next[it])
             ELSE LET h1 == dup_run(h, head, trashcan, it, curr)
                  IN  dup_scan_keepone(h1, head, trashcan, h1.next[it])

\* The scan cursor it is advanced (it = it->next): an error when it is
\* neither the sentinel nor a node of head's ring.
Advance(h, head, it) ==
    IF it = head \/ (h.alloc[it] /\ it \in Reach(h, {head})) THEN h
    ELSE Fault(h, "cursor off the ring")

\* list_for_each (it, head) { ... }
RECURSIVE dup_scan(_, _, _, _)
dup_scan(h, head, trashcan, it) ==
    IF it = head THEN h
    ELSE LET curr == it
             hc == IF h.next[it] # head
                   THEN ReadValue(ReadValue(h, curr), h.next[it])
                   ELSE h
         IN  IF h.next[it] = head \/ strcmp(h.value[curr], h.value[h.next[it]]) # 0
             THEN dup_scan(Advance(hc, head, it), head, trashcan, h.next[it])
             ELSE LET it1 == h.prev[it]
                      h1 == dup_run(hc, head, trashcan, it1, curr)
                  IN  dup_scan(Advance(h1, head, it1), head, trashcan,
                               h1.next[it1])

q_delete_dup(h, head, okTrash) ==
    IF head = NULL \/ list_empty(h, head) THEN [h |-> h, ret |-> 0]
    ELSE LET t == q_new(h, TRASH, okTrash)
         IN  IF t.ret = NULL THEN [h |-> h, ret |-> 0]
             ELSE LET h1 == dup_scan(t.h, head, t.ret, t.h.next[head])
                  IN  [h |-> q_free(h1, t.ret), ret |-> 1]

\* swap_pair(&loc->next): every struct list_head ** the code forms is the
\* address of some node's next field, so it is modelled by that node.
swap_pair(h, loc) ==
    LET first == h.next[loc]
        second == h.next[first]
        h1 == SetPrev(h, h.next[second], first)
        h2 == SetNext(h1, first, h1.next[second])
        h3 == SetNext(h2, second, first)
        h4 == SetPrev(h3, second, h3.prev[first])
        h5 == SetPrev(h4, first, second)
    IN  SetNext(h5, loc, second)

\* swap_loop that advances by one node instead of two.
RECURSIVE swap_loop_step1(_, _, _)
swap_loop_step1(h, head, it) ==
    IF h.next[it] # head /\ h.next[h.next[it]] # head
    THEN LET h1 == swap_pair(h, it)
         IN  swap_loop_step1(h1, head, h1.next[it])
    ELSE h

RECURSIVE swap_loop(_, _, _)
swap_loop(h, head, it) ==
    IF h.next[it] # head /\ h.next[h.next[it]] # head
    THEN LET h1 == swap_pair(h, it)
         IN  swap_loop(h1, head, h1.next[h1.next[it]])
    ELSE h

q_swap(h, head) ==
    IF head = NULL THEN h ELSE swap_loop(h, head, head)

\* Bitwise exclusive or of two addresses.
RECURSIVE BitXor(_, _)
BitXor(a, b) ==
    IF a = 0 /\ b = 0 THEN 0
    ELSE (((a % 2) + (b % 2)) % 2) + 2 * BitXor(a \div 2, b \div 2)

\* swapptr(&a, &b) for two distinct cells: the pair <<*a, *b>> afterwards.
swapptr(a, b) ==
    LET a1 == BitXor(a, b)
        b1 == BitXor(b, a1)
        a2 == BitXor(a1, b1)
    IN  <<a2, b1>>

\* reverse_loop that advances through next after the swap.
RECURSIVE reverse_loop_next(_, _, _)
reverse_loop_next(h, head, it) ==
    IF it = head THEN h
    ELSE LET p == swapptr(h.next[it], h.prev[it])
             h1 == SetPrev(SetNext(h, it, p[1]), it, p[2])
         IN  reverse_loop_next(h1, head, h1.next[it])

RECURSIVE reverse_loop(_, _, _)
reverse_loop(h, head, it) ==
    IF it = head THEN h
    ELSE LET p == swapptr(h.next[it], h.prev[it])
             h1 == SetPrev(SetNext(h, it, p[1]), it, p[2])
         IN  reverse_loop(h1, head, h1.prev[it])

\* q_reverse that leaves the sentinel's own links as they were.
q_reverse_nohead(h, head) ==
    IF head = NULL \/ list_empty(h, head) THEN h
    ELSE reverse_loop(h, head, h.next[head])

q_reverse(h, head) ==
    IF head = NULL \/ list_empty(h, head) THEN h
    ELSE LET h1 == reverse_loop(h, head, h.next[head])
             p == swapptr(h1.next[head], h1.prev[head])
         IN  SetPrev(SetNext(h1, head, p[1]), head, p[2])

\* merge_loop that leaves out the last statement, *tail = l1 ? l1 : l2.
RECURSIVE merge_loop_norest(_, _, _, _, _)
merge_loop_norest(h, l1, l2, ans, tail) ==
    IF l1 # NULL /\ l2 # NULL
    THEN LET takeL1 == strcmp(h.value[l1], h.value[l2]) <= 0
             small == IF takeL1 THEN l1 ELSE l2
             h1 == IF tail = NULL THEN h ELSE SetNext(h, tail, small)
             ans1 == IF tail = NULL THEN small ELSE ans
             nxt == h1.next[small]
         IN  merge_loop_norest(h1, IF takeL1 THEN nxt ELSE l1,
                               IF takeL1 THEN l2 ELSE nxt, ans1, small)
    ELSE [h |-> h, ret |-> ans]

\* merge_sorted_singly's loop.  tail is a struct list_head **: NULL stands
\* for &ans, a node for the address of that node's next field.
RECURSIVE merge_loop(_, _, _, _, _)
merge_loop(h, l1, l2, ans, tail) ==
    IF l1 # NULL /\ l2 # NULL
    THEN LET takeL1 == strcmp(h.value[l1], h.value[l2]) <= 0
             small == IF takeL1 THEN l1 ELSE l2
             h1 == IF tail = NULL THEN h ELSE SetNext(h, tail, small)
             ans1 == IF tail = NULL THEN small ELSE ans
             nxt == h1.next[small]
         IN  merge_loop(h1, IF takeL1 THEN nxt ELSE l1,
                        IF takeL1 THEN l2 ELSE nxt, ans1, small)
    ELSE LET rest == IF l1 # NULL THEN l1 ELSE l2
         IN  [h   |-> IF tail = NULL THEN h ELSE SetNext(h, tail, rest),
              ret |-> IF tail = NULL THEN rest ELSE ans]

merge_sorted_singly(h, l1, l2) == merge_loop(h, l1, l2, NULL, NULL)

\* final_tail that walks to the end of the rest without rebuilding prev.
RECURSIVE final_tail_noprev(_, _)
final_tail_noprev(h, it) ==
    IF h.next[it] # NULL
    THEN final_tail_noprev(h, h.next[it])
    ELSE [h |-> h, it |-> it]

\* for (it->next = l1 ? l1 : l2; it->next; it = it->next) it->next->prev = it;
RECURSIVE final_tail(_, _)
final_tail(h, it) ==
    IF h.next[it] # NULL
    THEN final_tail(SetPrev(h, h.next[it], it), h.next[it])
    ELSE [h |-> h, it |-> it]

RECURSIVE final_loop(_, _, _, _)
final_loop(h, l1, l2, it) ==
    IF l1 # NULL /\ l2 # NULL
    THEN LET takeL1 == strcmp(h.value[l1], h.value[l2]) <= 0
             small == IF takeL1 THEN l1 ELSE l2
             h1 == SetPrev(h, small, it)
             h2 == SetNext(h1, it, small)
             it1 == h2.next[it]
             nxt == h2.next[small]
         IN  final_loop(h2, IF takeL1 THEN nxt ELSE l1,
                        IF takeL1 THEN l2 ELSE nxt, it1)
    ELSE [h |-> SetNext(h, it, IF l1 # NULL THEN l1 ELSE l2), it |-> it]

final_merge(h, head, l1, l2) ==
    LET a == final_loop(h, l1, l2, head)
        b == final_tail(a.h, a.it)
    IN  SetPrev(SetNext(b.h, b.it, head), head, b.it)

\* for (i = 0; i < size; i++) { lists[i] = it; it = it->next; lists[i]->next = NULL; }
\* st = [h |-> memory, lists |-> the array lists[0..size-1]]
RECURSIVE split_loop(_, _, _, _)
split_loop(st, it, i, size) ==
    IF i < size
    THEN LET it1 == st.h.next[it]
         IN  split_loop([h |-> SetNext(st.h, it, NULL),
                         lists |-> [st.lists EXCEPT ![i] = it]], it1, i + 1, size)
    ELSE st

\* for (i = 0, j = n - 1; i < j; i++, j--) lists[i] = merge_sorted_singly(lists[i], lists[j]);
RECURSIVE fold_round(_, _, _)
fold_round(st, i, j) ==
    IF i < j
    THEN LET m == merge_sorted_singly(st.h, st.lists[i], st.lists[j])
         IN  fold_round([h |-> m.h, lists |-> [st.lists EXCEPT ![i] = m.ret]],
                        i + 1, j - 1)
    ELSE st

\* fold_loop that forgets the unpaired middle run: n = n / 2.
RECURSIVE fold_loop_half(_, _)
fold_loop_half(st, n) ==
    IF n > 2 THEN fold_loop_half(fold_round(st, 0, n - 1), n \div 2)
    ELSE st

\* for (n = size; n > 2; n = n / 2 + (n & 1)) ...
RECURSIVE fold_loop(_, _)
fold_loop(st, n) ==
    IF n > 2 THEN fold_loop(fold_round(st, 0, n - 1), (n \div 2) + (n % 2))
    ELSE st

\* The states q_sort goes through between its loops: the run array and the
\* count n after the decomposition and after each round of the folding loop.
RECURSIVE fold_trace(_, _)
fold_trace(st, n) ==
    <<[st |-> st, n |-> n]>> \o
        (IF n > 2 THEN fold_trace(fold_round(st, 0, n - 1), (n \div 2) + (n % 2))
         ELSE <<>>)

q_sort(h, head) ==
    IF head = NULL \/ list_empty(h, head) \/ list_is_singular(h, head) THEN h
    ELSE LET size == q_size(h, head)
             st0 == [h |-> h, lists |-> [i \in 0..(size - 1) |-> NULL]]
             st1 == split_loop(st0, h.next[head], 0, size)
             st2 == fold_loop(st1, size)
         IN  final_merge(st2.h, head, st2.lists[0], st2.lists[1])

\* ------------------------------------------------------------ traversal
\* The nodes met following next from the sentinel until it comes back to it
\* (at most fuel of them).
RECURSIVE Walk(_, _, _, _)
Walk(h, head, it, fuel) ==
    IF it = head \/ it = NULL \/ fuel = 0 THEN <<>>
    ELSE <<it>> \o Walk(h, head, h.next[it], fuel - 1)

Ring(h, head) == Walk(h, head, h.next[head], Pool + 1)

\* The values held along s.
ValuesOf(h, s) == [i \in 1..Len(s) |-> h.value[s[i]]]

\* ------------------------------------------------------------ the caller
\* Elements whose node is allocated.
Live(h) == { e \in Addr \ {NULL, HEAD, TRASH} : h.alloc[e] }

\* What one call leaves behind: the memory, the operation's name and
\* result, the bytes written to the caller's buffer, the tracked count.
Called(name, h, r, out, cap, cnt) ==
    /\ snap' = mem
    /\ mem' = h
    /\ op' = name
    /\ ret' = r
    /\ sp' = out
    /\ bufsize' = cap
    /\ count' = cnt

\* The strings held along the ring of head, front to back.
Held(h, head) == ValuesOf(h, Ring(h, head))

\* The abstract queue.  q_insert_head and q_insert_tail put the string at
\* the front and at the back when there is a queue and the allocator grants
\* both blocks; q_remove_head and q_remove_tail drop the first and the last
\* string, if any.  The other operations are not part of the abstraction:
\* after them the abstract queue is read off the ring again.
Granted(okNode, okValue) ==
    q # NULL /\ okNode /\ NewElem(mem) # NULL /\ okValue

Init ==
    \E ok \in BOOLEAN :
        LET r == q_new(EmptyMem, HEAD, ok)
        IN  /\ mem = r.h
            /\ q = r.ret
            /\ rm = NULL
            /\ sp = <<>>
            /\ bufsize = 0
            /\ op = "q_new"
            /\ ret = r.ret
            /\ count = 0
            /\ snap = EmptyMem
            /\ abs = <<>>

\* The caller creates a queue when it holds none.
Q_new ==
    /\ q = NULL
    /\ \E ok \in BOOLEAN :
        LET r == q_new(mem, HEAD, ok)
        IN  /\ q' = r.ret
            /\ Called("q_new", r.h, r.ret, <<>>, 0, 0)
    /\ abs' = <<>>
    /\ UNCHANGED rm

\* The caller destroys the queue and drops the handle.
Q_free ==
    /\ q' = NULL
    /\ Called("q_free", q_free(mem, q), 0, <<>>, 0, 0)
    /\ abs' = <<>>
    /\ UNCHANGED rm

Q_insert_head ==
    /\ \E s \in Strings, okNode \in BOOLEAN :
      \E okValue \in (IF okNode THEN BOOLEAN ELSE {FALSE}) :
        LET r == q_insert_head(mem, q, s, okNode, okValue)
        IN  /\ Called("q_insert_head", r.h, r.ret, <<>>, 0, count + r.ret)
            /\ abs' = IF Granted(okNode, okValue) THEN <<s>> \o abs ELSE abs
    /\ UNCHANGED <<q, rm>>

Q_insert_tail ==
    /\ \E s \in Strings, okNode \in BOOLEAN :
      \E okValue \in (IF okNode THEN BOOLEAN ELSE {FALSE}) :
        LET r == q_insert_tail(mem, q, s, okNode, okValue)
        IN  /\ Called("q_insert_tail", r.h, r.ret, <<>>, 0, count + r.ret)
            /\ abs' = IF Granted(okNode, okValue) THEN abs \o <<s>> ELSE abs
    /\ UNCHANGED <<q, rm>>

\* The caller holds at most one removed element at a time: it releases the
\* one it has before it removes another.
Q_remove_head ==
    /\ rm = NULL
    /\ \E spGiven \in BOOLEAN :
      \E bufsz \in (IF spGiven THEN 0..(SizeMod - 1) ELSE {0}) :
        LET r == q_remove_head(mem, q, spGiven, bufsz)
        IN  /\ rm' = r.ret
            /\ Called("q_remove_head", r.h, r.ret, r.out, bufsz,
                      IF r.ret # NULL THEN count - 1 ELSE count)
    /\ abs' = IF abs = <<>> THEN abs ELSE Tail(abs)
    /\ UNCHANGED q

Q_remove_tail ==
    /\ rm = NULL
    /\ \E spGiven \in BOOLEAN :
      \E bufsz \in (IF spGiven THEN 0..(SizeMod - 1) ELSE {0}) :
        LET r == q_remove_tail(mem, q, spGiven, bufsz)
        IN  /\ rm' = r.ret
            /\ Called("q_remove_tail", r.h, r.ret, r.out, bufsz,
                      IF r.ret # NULL THEN count - 1 ELSE count)
    /\ abs' = IF abs = <<>> THEN abs ELSE SubSeq(abs, 1, Len(abs) - 1)
    /\ UNCHANGED q

\* The caller releases the element a remove gave it.
Q_release_element ==
    /\ rm # NULL
    /\ rm' = NULL
    /\ Called("q_release_element", q_release_element(mem, rm), 0, <<>>, 0, count)
    /\ UNCHANGED <<q, abs>>

Q_size ==
    /\ Called("q_size", mem, q_size(mem, q), <<>>, 0, count)
    /\ UNCHANGED <<q, rm, abs>>

Q_delete_mid ==
    /\ LET r == q_delete_mid(mem, q)
       IN  /\ Called("q_delete_mid", r.h, r.ret, <<>>, 0, count - r.ret)
           /\ abs' = Held(r.h, q)
    /\ UNCHANGED <<q, rm>>

Q_delete_dup ==
    /\ \E okTrash \in BOOLEAN :
        LET r == q_delete_dup(mem, q, okTrash)
        IN  /\ Called("q_delete_dup", r.h, r.ret, <<>>, 0,
                      count - (Cardinality(Live(mem)) - Cardinality(Live(r.h))))
            /\ abs' = Held(r.h, q)
    /\ UNCHANGED <<q, rm>>

Q_swap ==
    /\ Called("q_swap", q_swap(mem, q), 0, <<>>, 0, count)
    /\ abs' = Held(mem', q)
    /\ UNCHANGED <<q, rm>>

Q_reverse ==
    /\ Called("q_reverse", q_reverse(mem, q), 0, <<>>, 0, count)
    /\ abs' = Held(mem', q)
    /\ UNCHANGED <<q, rm>>

Q_sort ==
    /\ Called("q_sort", q_sort(mem, q), 0, <<>>, 0, count)
    /\ abs' = Held(mem', q)
    /\ UNCHANGED <<q, rm>>

Next ==
    \/ Q_new
    \/ Q_free
    \/ Q_insert_head
    \/ Q_insert_tail
    \/ Q_remove_head
    \/ Q_remove_tail
    \/ Q_release_element
    \/ Q_size
    \/ Q_delete_mid
    \/ Q_delete_dup
    \/ Q_swap
    \/ Q_reverse
    \/ Q_sort

Spec == Init /\ [][Next]_vars

\* ------------------------------------------------- the algorithms alone
\* The memory after q_new and one q_insert_tail per string of vals, every
\* malloc succeeding: the elements are the blocks 3, 4, ... in queue order.
RECURSIVE Built(_)
Built(vals) ==
    IF vals = <<>> THEN q_new(EmptyMem, HEAD, TRUE).h
    ELSE LET h == Built(SubSeq(vals, 1, Len(vals) - 1))
             e == Len(vals) + 2
             h1 == INIT_LIST_HEAD(Malloc(h, e), e)
             h2 == [h1 EXCEPT !.value[e] = vals[Len(vals)]]
         IN  list_add_tail(h2, e, HEAD)

\* Either q_new failed and the handle is NULL, or a queue of up to MaxLen
\* strings was built.
InitAlg ==
    /\ rm = NULL
    /\ sp = <<>>
    /\ bufsize = 0
    /\ \/ /\ mem = EmptyMem
          /\ q = NULL
          /\ op = "q_new"
          /\ ret = NULL
          /\ count = 0
          /\ snap = EmptyMem
          /\ abs = <<>>
       \/ \E k \in 0..MaxLen :
            \E vals \in [1..k -> Strings] :
                /\ mem = Built(vals)
                /\ q = HEAD
                /\ op = IF k = 0 THEN "q_new" ELSE "q_insert_tail"
                /\ ret = IF k = 0 THEN HEAD ELSE 1
                /\ count = k
                /\ abs = vals
                /\ snap = IF k = 0 THEN EmptyMem
                          ELSE Built(SubSeq(vals, 1, k - 1))

\* The caller runs an algorithm on a queue as built, or on one that q_sort
\* or q_reverse has just rearranged.
Ready == op \in {"q_new", "q_insert_tail", "q_sort", "q_reverse"}

NextAlg ==
    \/ Ready /\ Q_delete_mid
    \/ Ready /\ Q_delete_dup
    \/ Ready /\ Q_swap
    \/ Ready /\ Q_reverse
    \/ Ready /\ Q_sort

SpecAlg == InitAlg /\ [][NextAlg]_vars

\* ------------------------------------------------------------ observation
TypeOK ==
    /\ q \in {NULL, HEAD}
    /\ rm \in Elems \cup {NULL}
    /\ count \in 0..Pool

Range(s) == { s[i] : i \in 1..Len(s) }
Reversed(s) == [i \in 1..Len(s) |-> s[Len(s) + 1 - i]]
Pos(s, x) == CHOOSE i \in 1..Len(s) : s[i] = x

\* The values along s do not decrease.
NonDecreasing(h, s) ==
    \A i \in 1..(Len(s) - 1) : strcmp(h.value[s[i]], h.value[s[i + 1]]) <= 0

\* Every node of head's ring, the sentinel included, is linked both ways and
\* following next from the sentinel comes back to it.
Circular(h, head) ==
    LET r == Ring(h, head)
        last == IF r = <<>> THEN head ELSE r[Len(r)]
    IN  /\ h.next[last] = head
        /\ \A x \in Range(r) \cup {head} :
              /\ h.next[x] # NULL /\ h.prev[x] # NULL
              /\ h.prev[h.next[x]] = x
              /\ h.next[h.prev[x]] = x

\* No element was allocated or released and no value changed by the last call.
SameElements == mem.alloc = snap.alloc /\ mem.value = snap.value

Before == Ring(snap, q)
After == Ring(mem, q)

\* ------------------------------------------------------------------ claims

\* C1: at every operation boundary every node reachable from the sentinel
\* satisfies x.next.prev == x and x.prev.next == x, and a forward traversal
\* from the sentinel back to the sentinel meets as many elements as were
\* inserted and not since removed or deleted.
C1_RingInvariant ==
    q # NULL => Circular(mem, q) /\ Len(Ring(mem, q)) = count

\* A full queue that q_sort has just rebuilt from a different order.
C1_Witness ==
    /\ op = "q_sort"
    /\ count = 3
    /\ Before # After

\* C2: after q_sort the values along the ring do not decrease and the ring
\* holds exactly the elements it held before: the same nodes, each once,
\* each with its value, none allocated or released.
C2_SortCorrect ==
    op = "q_sort" =>
        /\ NonDecreasing(mem, After)
        /\ Len(After) = Len(Before)
        /\ Range(After) = Range(Before)
        /\ SameElements

\* q_sort has acted on five elements with a tie among them, not in order before.
C2_Witness ==
    /\ op = "q_sort"
    /\ Len(Before) = 5
    /\ ~NonDecreasing(snap, Before)
    /\ \E i, j \in 1..5 : i # j /\ snap.value[Before[i]] = snap.value[Before[j]]

\* C3: q_sort is stable: two elements with equal values stay in the order
\* they had before the call.
C3_SortStable ==
    op = "q_sort" =>
        \A i, j \in 1..Len(Before) :
            (i < j /\ snap.value[Before[i]] = snap.value[Before[j]])
                => Pos(After, Before[i]) < Pos(After, Before[j])

\* How many elements of s hold the value v.
Occurrences(h, s, v) == Cardinality({ i \in 1..Len(s) : h.value[s[i]] = v })

\* The elements of s whose value no other element of s holds, in order.
RECURSIVE UniqueOf(_, _, _)
UniqueOf(h, s, i) ==
    IF i > Len(s) THEN <<>>
    ELSE (IF Occurrences(h, s, h.value[s[i]]) = 1 THEN <<s[i]>> ELSE <<>>)
             \o UniqueOf(h, s, i + 1)

\* What C4 says of a call on a sorted ring: exactly the elements whose
\* value occurred once are left, in order, the others are released.
OnlyUniqueLeft ==
    /\ After = UniqueOf(snap, Before, 1)
    /\ \A e \in Range(Before) :
          IF e \in Range(After)
          THEN mem.alloc[e] /\ mem.value[e] = snap.value[e]
          ELSE ~mem.alloc[e]

\* C4: on a ring sorted in ascending order q_delete_dup leaves
\* exactly the elements whose value occurred once, in their original
\* order; every element whose value occurred twice or more is removed.
C4_DeleteDupSorted ==
    (op = "q_delete_dup" /\ q # NULL /\ NonDecreasing(snap, Before)) =>
        OnlyUniqueLeft

\* What does hold of q_delete_dup on a sorted ring: a call that returns true
\* leaves only the unique elements; a call that returns false (the ring is
\* empty or the scratch sentinel could not be allocated) leaves the ring
\* as it was.
DeleteDupSortedWhenTrue ==
    (op = "q_delete_dup" /\ q # NULL /\ NonDecreasing(snap, Before)) =>
        IF ret = 1 THEN OnlyUniqueLeft ELSE mem = snap

\* q_delete_dup has removed some elements of a sorted ring and kept others.
DeleteDupSortedCase ==
    /\ op = "q_delete_dup"
    /\ ret = 1
    /\ NonDecreasing(snap, Before)
    /\ Len(Before) = 5
    /\ Len(After) \in 1..3

\* C5: q_delete_dup returns failure only if the queue handle is null.
C5_DeleteDupFailsOnlyOnNull ==
    (op = "q_delete_dup" /\ q # NULL) => ret = 1

\* s without its element at position p (positions from 1).
Without(s, p) == SubSeq(s, 1, p - 1) \o SubSeq(s, p + 1, Len(s))

\* C6: on a ring of N >= 1 elements q_delete_mid returns true and removes
\* (and releases) exactly the element at zero-based index floor(N/2),
\* leaving the others in order; on a null or empty queue it returns false
\* and changes nothing.
C6_DeleteMid ==
    op = "q_delete_mid" =>
        LET N == Len(Before)
            mid == (N \div 2) + 1
        IN  IF q = NULL \/ N = 0
            THEN ret = 0 /\ mem = snap
            ELSE /\ ret = 1
                 /\ After = Without(Before, mid)
                 /\ ~mem.alloc[Before[mid]]
                 /\ \A e \in Range(After) :
                       mem.alloc[e] /\ mem.value[e] = snap.value[e]

\* q_delete_mid has removed the middle of five elements.
C6_Witness ==
    /\ op = "q_delete_mid"
    /\ ret = 1
    /\ Len(Before) = 5
    /\ Len(After) = 4

\* The position the element at position i of n goes to in a pairwise swap.
SwapPos(i, n) ==
    IF i % 2 = 1 THEN (IF i + 1 <= n THEN i + 1 ELSE i) ELSE i - 1

\* C7: q_swap exchanges the elements at indices 2k and 2k+1 for every k with
\* 2k+1 < N and leaves the last element in place when N is odd; the nodes
\* are relinked: each keeps its value and the set of nodes is unchanged.
C7_Swap ==
    op = "q_swap" =>
        /\ Len(After) = Len(Before)
        /\ \A i \in 1..Len(Before) : After[SwapPos(i, Len(Before))] = Before[i]
        /\ SameElements

\* q_swap has acted on five elements: two pairs and an odd one.
C7_Witness ==
    /\ op = "q_swap"
    /\ Len(Before) = 5
    /\ After # Before

\* C8: after q_reverse a forward traversal visits the same nodes in exactly
\* the reverse of their order before; no node is allocated or released; a
\* null or empty queue is left unchanged.
C8_Reverse ==
    op = "q_reverse" =>
        /\ After = Reversed(Before)
        /\ SameElements
        /\ (q = NULL \/ Before = <<>>) => mem = snap

\* q_reverse has acted on five elements.
C8_Witness ==
    /\ op = "q_reverse"
    /\ Len(Before) = 5
    /\ After # Before

\* C9: two q_reverse calls in succession restore every next and prev link
\* (and so the sequence and the nodes) to what they were before the first.
C9_ReverseTwice ==
    [][(op = "q_reverse" /\ op' = "q_reverse") => mem' = snap]_vars

\* q_reverse has brought four or more elements back to the order of their
\* addresses, the order they were built in, from the opposite order.
C9_Witness ==
    /\ op = "q_reverse"
    /\ Len(After) >= 4
    /\ \A i \in 1..Len(After) : After[i] = i + 2
    /\ Before = Reversed(After)

\* C10: a remove writes only to positions 0..bufsize-1 of the caller's
\* buffer, whatever bufsize is.
C10_NoOverflow ==
    op \in {"q_remove_head", "q_remove_tail"} => Len(sp) <= bufsize

\* C11: a remove given a buffer of capacity bufsize >= 1 that is smaller
\* than the stored string with its terminator writes exactly the first
\* bufsize-1 bytes of the value and then a terminator.
C11_Truncation ==
    (/\ op \in {"q_remove_head", "q_remove_tail"}
     /\ ret # NULL
     /\ bufsize >= 1
     /\ bufsize < Len(snap.value[ret]) + 1) =>
        sp = SubSeq(snap.value[ret], 1, bufsize - 1) \o <<0>>

\* A remove has cut a two-byte value down to its first byte.
C11_Witness ==
    /\ op \in {"q_remove_head", "q_remove_tail"}
    /\ ret # NULL
    /\ bufsize = 2
    /\ Len(snap.value[ret]) = 2
    /\ sp = <<snap.value[ret][1], 0>>

\* C12: an insert that cannot allocate the node or the value buffer returns
\* false and leaves the memory as it was: the same nodes with the same
\* links and nothing allocated that was not before (the node allocated
\* before a failed value buffer has been freed again).
C12_InsertFailure ==
    (op \in {"q_insert_head", "q_insert_tail"} /\ q # NULL /\ ret = 0) =>
        mem = snap

\* An insert has failed on a queue that holds elements while the allocator
\* still had a free block: one of the two malloc calls was refused.
C12_Witness ==
    /\ op \in {"q_insert_head", "q_insert_tail"}
    /\ q # NULL
    /\ ret = 0
    /\ Len(After) >= 1
    /\ FreeElems(mem) # {}

\* C13: no block is ever freed twice; the elements that are allocated are
\* exactly those in the queue's ring and the one a remove handed to the
\* caller (so q_delete_mid and q_delete_dup have released what they took
\* out, and nothing else is left); q_free releases every element that was
\* in the ring and then the sentinel; the scratch sentinel of q_delete_dup
\* does not outlive the call.
C13_NoLeakNoDoubleRelease ==
    /\ "double free" \notin mem.fault
    /\ Live(mem) = (IF q # NULL THEN Range(Ring(mem, q)) ELSE {})
                       \cup ({rm} \ {NULL})
    /\ ~mem.alloc[TRASH]
    /\ (q # NULL) = mem.alloc[HEAD]
    /\ op = "q_free" =>
          \A e \in Range(Ring(snap, HEAD)) : ~mem.alloc[e]

\* q_free has destroyed a queue of two or more elements while the caller
\* still holds a removed one.
C13_Witness ==
    /\ op = "q_free"
    /\ snap.alloc[HEAD]
    /\ Len(Ring(snap, HEAD)) >= 2
    /\ rm # NULL
    /\ mem.alloc[rm]

\* The operations that take a queue handle.
HandleOps ==
    {"q_free", "q_insert_head", "q_insert_tail", "q_remove_head",
     "q_remove_tail", "q_size", "q_delete_mid", "q_delete_dup", "q_swap",
     "q_reverse", "q_sort"}

\* C14: every operation called with a NULL queue (no sentinel was allocated
\* when it was called) returns its no-op result (false, NULL, 0, or nothing:
\* all 0 here), writes nothing to the caller's buffer and leaves the memory,
\* allocation map included, as it was.
C14_NullHandle ==
    (op \in HandleOps /\ q = NULL /\ ~snap.alloc[HEAD]) =>
        /\ ret = 0
        /\ mem = snap
        /\ sp = <<>>

\* q_insert_head was called with a NULL queue while the memory still holds
\* an element the caller removed earlier.
C14_Witness ==
    /\ op = "q_insert_head"
    /\ q = NULL
    /\ ~snap.alloc[HEAD]
    /\ rm # NULL

\* C15: q_sort of a ring whose values are already in non-decreasing order
\* leaves the same elements in the same order.
C15_SortOfSorted ==
    (op = "q_sort" /\ NonDecreasing(snap, Before)) => After = Before

\* What does hold of q_sort on a sorted ring: the sequence of values is the
\* same (elements with equal values may have traded places).
SortOfSortedKeepsValues ==
    (op = "q_sort" /\ NonDecreasing(snap, Before)) =>
        ValuesOf(mem, After) = ValuesOf(snap, Before)

\* All but the last member of s.
Front(s) == SubSeq(s, 1, Len(s) - 1)

\* The element a remove returned left the ring and nothing else changed.
Detached(e) ==
    /\ rm = e
    /\ mem.alloc[e]
    /\ mem.value[e] = snap.value[e]
    /\ ~Linked(mem, e)
    /\ \A x \in Range(After) : mem.value[x] = snap.value[x]

\* C16: the basic operations are a double-ended sequence.  The strings met
\* on the forward traversal of the ring are always the abstract queue, in
\* which q_insert_head puts a string at the front, q_insert_tail at the back,
\* q_remove_head and q_remove_tail drop the first and the last; q_size
\* returns its length; a remove of an empty queue returns NULL and changes
\* nothing; a removed element is not released, is no longer reachable from
\* the sentinel, and the elements that stay keep their order.
C16_DequeRefinement ==
    /\ q # NULL => Held(mem, q) = abs
    /\ op = "q_size" => ret = Len(abs)
    /\ (op = "q_insert_head" /\ ret = 1) =>
            /\ After = <<After[1]>> \o Before
            /\ \A x \in Range(Before) : mem.value[x] = snap.value[x]
    /\ (op = "q_insert_tail" /\ ret = 1) =>
            /\ After = Before \o <<After[Len(After)]>>
            /\ \A x \in Range(Before) : mem.value[x] = snap.value[x]
    /\ op = "q_remove_head" =>
            IF q = NULL \/ Before = <<>> THEN ret = NULL /\ mem = snap
            ELSE ret = Before[1] /\ After = Tail(Before) /\ Detached(ret)
    /\ op = "q_remove_tail" =>
            IF q = NULL \/ Before = <<>> THEN ret = NULL /\ mem = snap
            ELSE ret = Before[Len(Before)] /\ After = Front(Before) /\ Detached(ret)

\* A q_remove_tail took the last of several different strings.
C16_Witness ==
    /\ op = "q_remove_tail"
    /\ Len(Before) >= 2
    /\ ret = Before[Len(Before)]
    /\ snap.value[Before[1]] # snap.value[ret]
    /\ abs = Front(ValuesOf(snap, Before))

\* The nodes met from l following next until NULL (at most fuel of them).
RECURSIVE Chain(_, _, _)
Chain(h, l, fuel) ==
    IF l = NULL \/ fuel = 0 THEN <<>>
    ELSE <<l>> \o Chain(h, h.next[l], fuel - 1)

\* The run kept at position i of the run array.
Run(st, i) == Chain(st.h, st.lists[i], Pool + 1)

\* Positions 0..n-1 of the run array hold non-empty, NULL-terminated, sorted
\* runs that are pairwise disjoint and hold each element of all exactly once.
RunsOK(st, n, all) ==
    /\ \A i \in 0..(n - 1) :
          /\ st.lists[i] # NULL
          /\ Len(Run(st, i)) <= Cardinality(all)
          /\ Cardinality(Range(Run(st, i))) = Len(Run(st, i))
          /\ NonDecreasing(st.h, Run(st, i))
    /\ \A i, j \in 0..(n - 1) : i # j => Range(Run(st, i)) \cap Range(Run(st, j)) = {}
    /\ UNION { Range(Run(st, i)) : i \in 0..(n - 1) } = all
    /\ st.h.alloc = snap.alloc /\ st.h.value = snap.value

\* The trace of the q_sort that was just called.
SortTrace ==
    LET size == q_size(snap, q)
        st0 == [h |-> snap, lists |-> [i \in 0..(size - 1) |-> NULL]]
    IN  fold_trace(split_loop(st0, snap.next[q], 0, size), size)

\* C17: inside q_sort on a ring of N >= 2 elements, after the decomposition
\* (count N) and after each folding round (count n becoming ceil(n/2)) the
\* first count positions of the run array hold sorted NULL-terminated runs,
\* pairwise disjoint, that hold each of the N elements exactly once; the
\* folding ends with exactly 2 runs, and the final merge of positions 0 and 1
\* gives the ring the call leaves, closed around the sentinel with every prev
\* link rebuilt.
C17_SortRuns ==
    (op = "q_sort" /\ q # NULL /\ Len(Before) >= 2) =>
        LET tr == SortTrace
            fin == tr[Len(tr)]
        IN  /\ tr[1].n = Len(Before)
            /\ \A k \in 1..Len(tr) : RunsOK(tr[k].st, tr[k].n, Range(Before))
            /\ \A k \in 1..(Len(tr) - 1) :
                  /\ tr[k].n > 2
                  /\ 2 * tr[k + 1].n \in {tr[k].n, tr[k].n + 1}
            /\ fin.n = 2
            /\ fin.st = fold_loop(SortTrace[1].st, SortTrace[1].n)
            /\ mem = final_merge(fin.st.h, q, fin.st.lists[0], fin.st.lists[1])
            /\ Circular(mem, q)
            /\ Range(After) = Range(Before) /\ Len(After) = Len(Before)

\* A q_sort of five elements went through two folding rounds (5, 3, 2 runs).
C17_Witness ==
    /\ op = "q_sort" /\ q # NULL
    /\ Len(Before) = 5
    /\ Len(SortTrace) = 3
    /\ SortTrace[2].n = 3
    /\ Len(Run(SortTrace[2].st, 0)) = 2
    /\ Len(Run(SortTrace[3].st, 0)) = 3

\* The element at position i of s differs from both its neighbours in s
\* (the ends of s have the sentinel as a neighbour).
Lonely(h, s, i) ==
    /\ i = 1 \/ h.value[s[i - 1]] # h.value[s[i]]
    /\ i = Len(s) \/ h.value[s[i + 1]] # h.value[s[i]]

\* The elements of s that are in no run of two or more adjacent equal
\* values, in order.
RECURSIVE LonelyOf(_, _, _)
LonelyOf(h, s, i) ==
    IF i > Len(s) THEN <<>>
    ELSE (IF Lonely(h, s, i) THEN <<s[i]>> ELSE <<>>) \o LonelyOf(h, s, i + 1)

\* Exactly the elements in no run of adjacent equal values are left, in
\* order and as they were; the others are released.
OnlyLonelyLeft ==
    /\ After = LonelyOf(snap, Before, 1)
    /\ \A e \in Range(Before) :
          IF e \in Range(After)
          THEN mem.alloc[e] /\ mem.value[e] = snap.value[e]
          ELSE ~mem.alloc[e]

\* C18: on any non-empty ring, sorted or not, q_delete_dup removes exactly
\* the elements of the maximal runs of two or more adjacent equal values
\* (not wrapping across the sentinel) and keeps, in order, every element
\* that differs from both its neighbours; equal values that are not
\* adjacent stay.
C18_DeleteDupAdjacent ==
    (op = "q_delete_dup" /\ q # NULL /\ Before # <<>>) => OnlyLonelyLeft

\* What does hold of q_delete_dup on a non-empty ring: a call that returns
\* true leaves exactly the elements outside the runs of adjacent equal
\* values; a call that returns false (the scratch sentinel could not be
\* allocated) leaves everything as it was.
DeleteDupAdjacentWhenTrue ==
    (op = "q_delete_dup" /\ q # NULL /\ Before # <<>>) =>
        IF ret = 1 THEN OnlyLonelyLeft ELSE mem = snap

\* q_delete_dup removed a run from a ring and left two equal values that
\* were not adjacent.
DeleteDupAdjacentCase ==
    /\ op = "q_delete_dup"
    /\ ret = 1
    /\ Len(After) < Len(Before)
    /\ \E i, j \in 1..Len(After) : i # j /\ mem.value[After[i]] = mem.value[After[j]]

\* q_delete_dup returned false on a ring with a run of equal values.
DeleteDupAdjacentFailed ==
    /\ op = "q_delete_dup"
    /\ q # NULL /\ ret = 0
    /\ LonelyOf(snap, Before, 1) # Before

\* The blocks some allocated sentinel reaches through next or prev links.
Reachable(h) == Reach(h, { s \in {HEAD, TRASH} : h.alloc[s] })

\* C19: release is never applied to an element that is still linked: in
\* q_free, q_delete_mid and q_delete_dup every element is unlinked from
\* the ring it is in before q_release_element is called on it, and no
\* released element can be reached from a sentinel through next or prev.
C19_ReleaseAfterUnlink ==
    /\ "release of a linked element" \notin mem.fault
    /\ \A x \in Reachable(mem) : mem.alloc[x]
    /\ \A e \in Elems : (snap.alloc[e] /\ ~mem.alloc[e]) => e \notin Reachable(mem)

\* q_delete_mid released the middle one of three elements.
C19_Witness ==
    /\ op = "q_delete_mid"
    /\ ret = 1
    /\ Len(Before) = 3
    /\ ~mem.alloc[Before[2]]
    /\ Before[2] \in Reachable(snap)
    /\ After = <<Before[1], Before[3]>>

\* The memory of the q_delete_dup that was just called, when its scan has
\* finished and the scratch ring is not yet freed.
AfterScan ==
    LET t == q_new(snap, TRASH, TRUE)
    IN  dup_scan(t.h, q, t.ret, t.h.next[q])

\* C20: q_delete_dup reads no released memory: the value a run is compared
\* with belongs to the run's first element, which is moved to the scratch
\* ring and stays allocated until the scan of the whole ring is over, the
\* scratch ring being released only then; and whenever the scan cursor is
\* advanced it is the sentinel or a node still linked in the queue's ring.
C20_NoReadOfReleased ==
    /\ "read of freed memory" \notin mem.fault
    /\ "cursor off the ring" \notin mem.fault
    /\ (op = "q_delete_dup" /\ ret = 1) =>
          /\ \A e \in Range(Before) :
                /\ AfterScan.alloc[e]
                /\ AfterScan.value[e] = snap.value[e]
          /\ Range(Ring(AfterScan, TRASH)) = Range(Before) \ Range(After)
          /\ Ring(AfterScan, q) = After
          /\ mem = q_free(AfterScan, TRASH)

\* q_delete_dup met a run of three equal values, compared its key twice
\* after moving its first element away, and stepped over two kept elements.
C20_Witness ==
    /\ op = "q_delete_dup"
    /\ ret = 1
    /\ Len(Before) = 5
    /\ Len(After) = 2
    /\ Len(Ring(AfterScan, TRASH)) = 3
    /\ \E i \in 1..3 :
          /\ snap.value[Before[i]] = snap.value[Before[i + 1]]
          /\ snap.value[Before[i]] = snap.value[Before[i + 2]]

====
